---- MODULE Spec2Model ----
(***************************************************************************)
(* Model of the generic tree parser and canonical printer of fuji          *)
(* (src/src/lib.rs): parse_binding, parse_value, print_binding,            *)
(* print_value, with the nom 5 combinators they are built from.            *)
(*                                                                         *)
(* Text is a sequence of one-character strings.  A parse result is the     *)
(* nom IResult: Ok(rest, val) or Err.                                      *)
(***************************************************************************)
EXTENDS Naturals, Sequences, FiniteSets

\* ------------------------------------------------------------------ bounds
MaxLen == 5        \* every text of at most this many characters is an input
MaxPieces == 9     \* grammar-shaped documents of at most this many lexemes
MaxInsert == 2     \* whitespace characters inserted into a canonical text
MaxSteps == 4      \* constructor applications when building a tree

\* -------------------------------------------------------------- characters
\* nom::character::complete::alphanumeric1 accepts ASCII letters and digits;
\* the model's texts use these representatives of the class.
Alnum == {"a", "b", "0"}
\* nom::character::complete::multispace0/1 accept space, tab, CR and LF.
Whitespace == {" ", "\t", "\r", "\n"}

\* ----------------------------------------------------------------- IResult
Err == [ok |-> FALSE]
Ok(rest, val) == [ok |-> TRUE, rest |-> rest, val |-> val]

Drop(s, n) == SubSeq(s, n + 1, Len(s))
Take(s, n) == SubSeq(s, 1, n)

\* length of the longest prefix of s made of characters of class
RECURSIVE PrefixLen(_, _)
PrefixLen(s, class) ==
  IF s # <<>> /\ Head(s) \in class THEN 1 + PrefixLen(Tail(s), class) ELSE 0

\* alphanumeric1: one or more letters/digits, fails on none
alphanumeric1(i) ==
  LET n == PrefixLen(i, Alnum)
  IN IF n = 0 THEN Err ELSE Ok(Drop(i, n), Take(i, n))

\* multispace0: zero or more whitespace characters, never fails
multispace0(i) ==
  LET n == PrefixLen(i, Whitespace) IN Ok(Drop(i, n), Take(i, n))

\* multispace1: one or more whitespace characters
multispace1(i) ==
  LET n == PrefixLen(i, Whitespace)
  IN IF n = 0 THEN Err ELSE Ok(Drop(i, n), Take(i, n))

\* tag(t): the literal t
tag(t, i) ==
  IF Len(i) >= Len(t) /\ Take(i, Len(t)) = t THEN Ok(Drop(i, Len(t)), t) ELSE Err

\* terminated(tag(t), multispace0)
tag_ws(t, i) ==
  LET r == tag(t, i)
  IN IF ~r.ok THEN Err ELSE Ok(multispace0(r.rest).rest, r.val)

\* binding_name with whitespace skipped between the name and "="
binding_name_ws(i) ==
  LET r == alphanumeric1(i)
  IN IF ~r.ok THEN Err
     ELSE LET e == tag(<<"=">>, multispace0(r.rest).rest)
          IN IF ~e.ok THEN Err ELSE Ok(e.rest, r.val)

\* terminated(alphanumeric1, tag("=")): the binding's name
binding_name(i) ==
  LET r == alphanumeric1(i)
  IN IF ~r.ok THEN Err
     ELSE LET e == tag(<<"=">>, r.rest)
          IN IF ~e.ok THEN Err ELSE Ok(e.rest, r.val)

\* value_token without the terminating multispace0
value_token_no_ws(i) == alphanumeric1(i)

\* terminated(alphanumeric1, multispace0): the value's token
value_token(i) ==
  LET r == alphanumeric1(i)
  IN IF ~r.ok THEN Err ELSE Ok(multispace0(r.rest).rest, r.val)

\* terminated(tag(","), multispace0): the separator of sibling values
comma_sep(i) == tag_ws(<<",">>, i)

\* multispace1: the separator of sibling bindings in a block
binding_sep(i) == multispace1(i)

\* ------------------------------------------------------------------ parser
\* Each combinator is an operator over the result of the parser before it,
\* in the order nom runs them.
RECURSIVE parse_binding(_), parse_value(_), value_list_loop(_, _),
          binding_list_loop(_, _)

\* separated_list, with the element parser's result e on the text after the
\* separator: an Error of the element ends the list at i (before the
\* separator); an element that consumed nothing is an Error of the list
value_list_element(i, res, e) ==
  IF ~e.ok THEN Ok(i, res)
  ELSE IF e.rest = i THEN Err
  ELSE value_list_loop(e.rest, Append(res, e.val))

\* separated_list, with the separator's result s on i: an Error of the
\* separator ends the list at i
value_list_separator(i, res, s) ==
  IF ~s.ok THEN Ok(i, res)
  ELSE IF s.rest = i THEN Err
  ELSE value_list_element(i, res, parse_value(s.rest))

\* the loop of separated_list(comma_sep, parse_value): i is the text after
\* the last element taken, res the elements so far
value_list_loop(i, res) == value_list_separator(i, res, comma_sep(i))

\* separated_list(terminated(tag(","), multispace0), parse_value): the first
\* element is tried without a separator, and its Error is the empty list
value_list(i) == value_list_element(i, <<>>, parse_value(i))

binding_list_element(i, res, e) ==
  IF ~e.ok THEN Ok(i, res)
  ELSE IF e.rest = i THEN Err
  ELSE binding_list_loop(e.rest, Append(res, e.val))

binding_list_separator(i, res, s) ==
  IF ~s.ok THEN Ok(i, res)
  ELSE IF s.rest = i THEN Err
  ELSE binding_list_element(i, res, parse_binding(s.rest))

\* the loop of separated_list(multispace1, parse_binding)
binding_list_loop(i, res) == binding_list_separator(i, res, binding_sep(i))

\* binding_list as separated_nonempty_list: an Error of the first element
\* is an Error of the list
binding_list_nonempty(i) ==
  LET e == parse_binding(i)
  IN IF ~e.ok THEN Err ELSE binding_list_element(i, <<>>, e)

\* separated_list(multispace1, parse_binding)
binding_list(i) == binding_list_element(i, <<>>, parse_binding(i))

\* delimited(.., .., terminated(tag("}"), multispace0)): the list l is the
\* block's value once the closing brace c is found
block_close(l, c) == IF ~c.ok THEN Err ELSE Ok(c.rest, l.val)

block_list(l) ==
  IF ~l.ok THEN Err ELSE block_close(l, tag_ws(<<"}">>, l.rest))

block_open(o) == IF ~o.ok THEN Err ELSE block_list(binding_list(o.rest))

\* delimited(terminated(tag("{"), multispace0), separated_list(..),
\*           terminated(tag("}"), multispace0))
block(i) == block_open(tag_ws(<<"{">>, i))

\* opt(p): an Error of p is turned into None and the input is left where it
\* was; children.unwrap_or(vec![]) makes None the empty sequence
opt_or_empty(i, b) == IF b.ok THEN b ELSE Ok(i, <<>>)

opt_block(i) == opt_or_empty(i, block(i))

\* |(value, children)| Value { value, children }
make_value(t, c) == Ok(c.rest, [value |-> t.val, children |-> c.val])

value_after_token(t) ==
  IF ~t.ok THEN Err ELSE make_value(t, opt_block(t.rest))

parse_value(input) == value_after_token(value_token(input))

\* |(name, values)| Binding { name, values }
make_binding(n, v) ==
  IF ~v.ok THEN Err ELSE Ok(v.rest, [name |-> n.val, values |-> v.val])

binding_after_name(n) ==
  IF ~n.ok THEN Err ELSE make_binding(n, value_list(n.rest))

parse_binding(input) == binding_after_name(binding_name(input))

\* ----------------------------------------------------------------- printer
\* .collect::<Vec<_>>().join(sep) over already printed parts
RECURSIVE Join(_, _)
Join(parts, sep) ==
  IF parts = <<>> THEN <<>>
  ELSE IF Len(parts) = 1 THEN parts[1]
  ELSE parts[1] \o sep \o Join(Tail(parts), sep)

RECURSIVE print_binding(_), print_value(_)

\* print_value with the children joined by "," as values are
print_value_comma(value) ==
  LET children ==
        IF value.children = <<>> THEN <<>>
        ELSE <<"{">>
             \o Join([k \in 1..Len(value.children) |-> print_binding(value.children[k])],
                     <<",">>)
             \o <<"}">>
  IN value.value \o children

print_value(value) ==
  LET children ==
        IF value.children = <<>> THEN <<>>
        ELSE <<"{">>
             \o Join([k \in 1..Len(value.children) |-> print_binding(value.children[k])],
                     <<" ">>)
             \o <<"}">>
  IN value.value \o children

print_binding(binding) ==
  binding.name \o <<"=">>
  \o Join([k \in 1..Len(binding.values) |-> print_value(binding.values[k])], <<",">>)

\* ------------------------------------------------------------------ inputs
\* the characters the grammar distinguishes: a letter, the four structural
\* symbols and a whitespace character
Chars == {"a", "=", ",", "{", "}", " "}

\* every text over Chars of at most n characters
RECURSIVE Strings(_)
Strings(n) ==
  IF n = 0 THEN {<<>>}
  ELSE LET P == Strings(n - 1)
       IN P \cup {Append(s, c) : s \in P, c \in Chars}

\* Longer inputs are written lexeme by lexeme along the grammar the parser
\* implements: "N" a name with its "=", "T" a value token, the structural
\* symbols and a whitespace character.  A binding may have no value, a block
\* may stay open, whitespace may stand wherever a lexeme may follow.
PieceText(x) ==
  CASE x = "N" -> <<"a", "=">>
    [] x = "T" -> <<"a">>
    [] OTHER -> <<x>>

Follow(p) ==
  CASE p = "S" -> {"N"}
    [] p = "N" -> {"T", "}", " "}
    [] p = "T" -> {",", "{", "}", " "}
    [] p = "," -> {"T", " "}
    [] p = "{" -> {"N", "}", " "}
    [] p = "}" -> {",", "}", " "}

\* d: [s: the text, last: its last lexeme, prev: its last lexeme that is not
\* whitespace, depth: the blocks open at its end]
NextPieces(d) ==
  LET base == IF d.last = " "
              THEN (Follow(d.prev) \ {" "})
                   \cup (IF d.prev \in {"N", "T", "}"} THEN {"N"} ELSE {})
              ELSE Follow(d.last)
  IN {x \in base : /\ (x = "}" => d.depth > 0)
                    /\ (x = "N" => d.depth > 0 \/ d.last = "S")}

Extend(d, x) ==
  [s |-> d.s \o PieceText(x),
   last |-> x,
   prev |-> IF x = " " THEN d.prev ELSE x,
   depth |-> IF x = "{" THEN d.depth + 1
             ELSE IF x = "}" THEN d.depth - 1 ELSE d.depth]

RECURSIVE DocStates(_)
DocStates(n) ==
  IF n = 0 THEN {[s |-> <<>>, last |-> "S", prev |-> "S", depth |-> 0]}
  ELSE LET P == DocStates(n - 1)
       IN P \cup UNION {{Extend(d, x) : x \in NextPieces(d)} : d \in P}

Documents == {d.s : d \in DocStates(MaxPieces)}

Texts == Strings(MaxLen) \cup Documents

\* the tokens trees are built from
Tokens == {<<"a">>, <<"b">>}

Value(t, children) == [value |-> t, children |-> children]
Binding(n, values) == [name |-> n, values |-> values]
Leaf(t) == Binding(t, <<Value(t, <<>>)>>)

\* ------------------------------------------------------------------- state
VARIABLES
  pc,        \* where the run is: "text", "failed", "parsed", "value",
             \* "value_failed", "value_printed", "build", "printed",
             \* "done", "reprinted"
  input,     \* the text given to the parser
  result,    \* the IResult of parsing input
  tree,      \* the Binding given to print_binding
  printed,   \* print_binding(tree) (print_value of the parsed Value)
  text,      \* printed, with whitespace inserted
  inserted,  \* the number of whitespace characters inserted
  reparsed,  \* parse_binding(text)
  reprinted, \* print_binding of the reparsed Binding
  steps      \* constructor applications that built tree

vars ==
  <<pc, input, result, tree, printed, text, inserted, reparsed, reprinted, steps>>

NoTree == Binding(<<>>, <<>>)

Init ==
  /\ input \in Texts
  /\ pc = "text"
  /\ result = Err
  /\ tree = NoTree
  /\ printed = <<>>
  /\ text = <<>>
  /\ inserted = 0
  /\ reparsed = Err
  /\ reprinted = <<>>
  /\ steps = 0

InitTree ==
  /\ input = <<>>
  /\ pc = "build"
  /\ result = Err
  /\ tree \in {Leaf(t) : t \in Tokens}
  /\ printed = <<>>
  /\ text = <<>>
  /\ inserted = 0
  /\ reparsed = Err
  /\ reprinted = <<>>
  /\ steps = 0

\* parse_binding(input)
ParseBinding ==
  /\ pc = "text"
  /\ result' = parse_binding(input)
  /\ pc' = IF result'.ok THEN "parsed" ELSE "failed"
  /\ tree' = IF result'.ok THEN result'.val ELSE tree
  /\ UNCHANGED <<input, printed, text, inserted, reparsed, reprinted, steps>>

\* parse_value(input)
ParseValue ==
  /\ pc = "text"
  /\ result' = parse_value(input)
  /\ pc' = IF result'.ok THEN "value" ELSE "value_failed"
  /\ UNCHANGED <<input, tree, printed, text, inserted, reparsed, reprinted, steps>>

\* print_value of the parsed Value
PrintValue ==
  /\ pc = "value"
  /\ printed' = print_value(result.val)
  /\ pc' = "value_printed"
  /\ UNCHANGED <<input, result, tree, text, inserted, reparsed, reprinted, steps>>

\* print_binding(tree): the canonical text
PrintBinding ==
  /\ pc \in {"parsed", "build"}
  /\ printed' = print_binding(tree)
  /\ text' = printed'
  /\ pc' = "printed"
  /\ UNCHANGED <<input, result, tree, inserted, reparsed, reprinted, steps>>

\* position p of t is the end of a value token, or one of "{", "}", ","
WhitespaceAllowedAfter(t, p) ==
  IF t[p] \in {"{", "}", ","} THEN TRUE
  ELSE IF t[p] \notin Alnum THEN FALSE
  ELSE IF p = Len(t) THEN TRUE
  ELSE t[p + 1] \notin (Alnum \cup {"="})

InsertedWhitespace == {" ", "\n"}

\* the caller writes one more whitespace character into the canonical text
InsertWhitespace ==
  /\ pc = "printed"
  /\ inserted < MaxInsert
  /\ \E p \in 1..Len(text) :
       /\ WhitespaceAllowedAfter(text, p)
       /\ \E w \in InsertedWhitespace :
            text' = Take(text, p) \o <<w>> \o Drop(text, p)
  /\ inserted' = inserted + 1
  /\ UNCHANGED <<pc, input, result, tree, printed, reparsed, reprinted, steps>>

\* parse_binding of the printed (and spaced) text
Reparse ==
  /\ pc = "printed"
  /\ reparsed' = parse_binding(text)
  /\ pc' = "done"
  /\ UNCHANGED <<input, result, tree, printed, text, inserted, reprinted, steps>>

\* print_binding of the reparsed Binding
PrintReparsed ==
  /\ pc = "done"
  /\ reparsed.ok
  /\ reprinted' = print_binding(reparsed.val)
  /\ pc' = "reprinted"
  /\ UNCHANGED <<input, result, tree, printed, text, inserted, reparsed, steps>>

\* Binding { name, values: vec![Value { value, children: vec![tree] }] }
Nest ==
  /\ pc = "build" /\ steps < MaxSteps
  /\ \E t \in Tokens : tree' = Binding(t, <<Value(t, <<tree>>)>>)
  /\ steps' = steps + 1
  /\ UNCHANGED <<pc, input, result, printed, text, inserted, reparsed, reprinted>>

\* one more Value pushed on tree.values
AddValue ==
  /\ pc = "build" /\ steps < MaxSteps
  /\ \E t \in Tokens :
       tree' = [tree EXCEPT !.values = Append(@, Value(t, <<>>))]
  /\ steps' = steps + 1
  /\ UNCHANGED <<pc, input, result, printed, text, inserted, reparsed, reprinted>>

\* one more Binding pushed on the children of the last Value of tree
AddChild ==
  /\ pc = "build" /\ steps < MaxSteps
  /\ \E t \in Tokens :
       tree' = [tree EXCEPT !.values[Len(tree.values)].children =
                              Append(@, Leaf(t))]
  /\ steps' = steps + 1
  /\ UNCHANGED <<pc, input, result, printed, text, inserted, reparsed, reprinted>>

Next ==
  \/ ParseBinding
  \/ ParseValue
  \/ PrintValue
  \/ PrintBinding
  \/ InsertWhitespace
  \/ Reparse
  \/ PrintReparsed

Spec == Init /\ [][Next]_vars

NextTree ==
  \/ Nest
  \/ AddValue
  \/ AddChild
  \/ PrintBinding
  \/ Reparse
  \/ PrintReparsed

SpecTree == InitTree /\ [][NextTree]_vars

\* ------------------------------------------------- predicates of the claims
\* every Binding of the tree has at least one Value
RECURSIVE NonEmptyValues(_)
NonEmptyValues(b) ==
  /\ b.values # <<>>
  /\ \A i \in 1..Len(b.values) :
       \A j \in 1..Len(b.values[i].children) :
         NonEmptyValues(b.values[i].children[j])

\* the number of blocks nested in one another in the tree
RECURSIVE Depth(_)
Depth(b) ==
  LET inner == UNION {{1 + Depth(b.values[i].children[j]) :
                         j \in 1..Len(b.values[i].children)} :
                      i \in 1..Len(b.values)}
  IN IF inner = {} THEN 0 ELSE CHOOSE d \in inner : \A e \in inner : e <= d

\* t begins with a non-empty run of letters/digits immediately followed by "="
BeginsWithName(t) ==
  \E n \in 1..Len(t) :
    /\ \A k \in 1..n : t[k] \in Alnum
    /\ n < Len(t)
    /\ t[n + 1] = "="

\* the block opened before position k of t, with d blocks open at k, is closed
RECURSIVE Closed(_, _, _)
Closed(t, k, d) ==
  IF k > Len(t) THEN FALSE
  ELSE IF t[k] = "{" THEN Closed(t, k + 1, d + 1)
  ELSE IF t[k] = "}" THEN (IF d = 1 THEN TRUE ELSE Closed(t, k + 1, d - 1))
  ELSE Closed(t, k + 1, d)

\* t is a binding whose first value's token is followed by a "{" that no "}"
\* matches
UnterminatedBlock(t) ==
  /\ BeginsWithName(t)
  /\ \E p \in 3..Len(t) :
       /\ t[p] = "{"
       /\ t[p - 1] \in Alnum
       /\ \A k \in 1..(p - 1) : t[k] \in Alnum \cup {"="}
       /\ ~Closed(t, p + 1, 1)

\* t is a token immediately followed by a block holding nothing but whitespace
EmptyBlockText(t) ==
  \E n \in 1..Len(t) :
    /\ \A k \in 1..n : t[k] \in Alnum
    /\ Len(t) >= n + 2
    /\ t[n + 1] = "{"
    /\ t[Len(t)] = "}"
    /\ \A k \in (n + 2)..(Len(t) - 1) : t[k] \in Whitespace

\* t is a bare token
TokenText(t) == t # <<>> /\ \A k \in 1..Len(t) : t[k] \in Alnum

Braces(t) == {k \in 1..Len(t) : t[k] \in {"{", "}"}}

\* ------------------------------------------------------------------ claims

\* C1: round trip.  For every input on which parse_binding succeeds with a
\* Binding b, whatever it leaves unconsumed, parse_binding(print_binding(b))
\* succeeds and returns exactly b with an empty remaining text.
C1_RoundTrip ==
  (pc \in {"done", "reprinted"} /\ inserted = 0) => reparsed = Ok(<<>>, tree)

\* the round trip of a Binding with two sibling bindings in a block, parsed
\* from an input that left text unconsumed
C1_Witness ==
  /\ pc = "done" /\ inserted = 0
  /\ tree = result.val
  /\ result.rest # <<>>
  /\ Len(tree.values) = 1
  /\ Len(tree.values[1].children) = 2
  /\ reparsed = Ok(<<>>, tree)

\* C2: inside a block, n >= 2 sibling bindings that each have a value,
\* separated by whitespace, are all parsed: the text name=tok{b1 b2 ... bn}
\* parses as a whole to one Value whose children are the n bindings in order.
C2_SiblingBindings ==
  (/\ pc \in {"done", "reprinted"}
   /\ Len(tree.values) = 1
   /\ Len(tree.values[1].children) >= 2
   /\ NonEmptyValues(tree))
  => /\ reparsed.ok
     /\ reparsed.rest = <<>>
     /\ Len(reparsed.val.values) = 1
     /\ reparsed.val.values[1].children = tree.values[1].children

\* C3: whitespace insensitivity.  The canonical text of a parsed Binding b
\* with whitespace inserted after value tokens, "{", "}" and "," parses to b
\* with an empty remaining text and prints as the canonical text again.
C3_WhitespaceInsensitive ==
  /\ (pc \in {"done", "reprinted"} /\ inserted > 0) => reparsed = Ok(<<>>, tree)
  /\ (pc = "reprinted" /\ inserted > 0) => reprinted = printed

\* whitespace stands after the token, after "{" or after "}" of a block
C3_Witness ==
  /\ pc = "reprinted" /\ inserted = MaxInsert
  /\ printed = <<"a", "=", "a", "{", "a", "=", "a", "}">>
  /\ text[4] = " " /\ text[Len(text)] = "\n"
  /\ reparsed = Ok(<<>>, tree)
  /\ reprinted = printed

\* C4: an unterminated block is a parse failure: parse_binding returns an
\* error for an input whose value token is followed by "{" and whose block
\* is never closed, and no Binding with leftover text.
C4_UnterminatedBlockFails ==
  (pc \in {"parsed", "failed"} /\ UnterminatedBlock(input)) => ~result.ok

\* C5: every Binding of a successful parse_binding, at every depth, has a
\* non-empty values sequence; a name and "=" without a value is no Binding.
C5_ValuesNonEmpty ==
  pc = "parsed" => NonEmptyValues(result.val)

\* C6: a name, "=" and n >= 1 comma-separated values, each a token with an
\* optional block, parse to a Binding with exactly these n values in the
\* order written, each with its token and its block's bindings, and an empty
\* remaining text.
C6_MultiValueOrder ==
  (pc \in {"done", "reprinted"} /\ NonEmptyValues(tree))
  => /\ reparsed.ok
     /\ reparsed.rest = <<>>
     /\ Len(reparsed.val.values) = Len(tree.values)
     /\ \A k \in 1..Len(tree.values) : reparsed.val.values[k] = tree.values[k]

\* C7: a value written with an empty block, with or without whitespace
\* between the braces, parses to the Value of the bare token, with no
\* children, and print_value writes no braces for a Value without children.
C7_EmptyBlock ==
  /\ (pc \in {"value", "value_printed"} /\ EmptyBlockText(input))
     => /\ result.rest = <<>>
        /\ result.val =
             Value(Take(input, PrefixLen(input, Alnum)), <<>>)
  /\ (pc \in {"value", "value_printed"} /\ TokenText(input))
     => result = Ok(<<>>, Value(input, <<>>))
  /\ (pc = "value_printed" /\ result.val.children = <<>>)
     => Braces(printed) = {}

\* a value with whitespace between its braces, parsed and printed
C7_Witness ==
  /\ pc = "value_printed"
  /\ input = <<"a", "{", " ", "}">>
  /\ result = Ok(<<>>, Value(<<"a">>, <<>>))
  /\ printed = <<"a">>

\* C8: recursion depth is bounded: some finite maximum D exists such that
\* parse_binding rejects every input nested deeper than D.  Here D ranges
\* over the depths below the deepest tree built.
C8_DepthBounded ==
  \E D \in 0..(MaxSteps - 1) :
    (pc \in {"done", "reprinted"} /\ Depth(tree) > D) => ~reparsed.ok

\* C9: the printer is a left inverse of the parser on every well-formed
\* tree: parse_binding(print_binding(b)) returns b and an empty text for every
\* Binding in which each Binding has a value and a Value has any number of
\* children.
C9_PrinterLeftInverse ==
  (pc \in {"done", "reprinted"} /\ steps > 0 /\ NonEmptyValues(tree))
  => reparsed = Ok(<<>>, tree)

\* C10: parse_binding returns an error for every input that does not begin
\* with a non-empty run of letters/digits immediately followed by "=".
C10_NameRequired ==
  (pc \in {"parsed", "failed"} /\ ~BeginsWithName(input)) => ~result.ok

\* whitespace between the name and "="
C10_Witness ==
  /\ pc = "failed"
  /\ input = <<"a", " ", "=", "a">>
  /\ ~result.ok

====
